---------------------------- MODULE Spec2Model ----------------------------
(***************************************************************************)
(* A state-machine model of rusting-links: the Dancing Links arena         *)
(* (src/src/lib.rs), its construction from an ExactCover source, the       *)
(* cover/uncover primitives, Algorithm X search, and the Sudoku encoder    *)
(* (src/src/sudoku.rs).                                                    *)
(*                                                                         *)
(* The arena node_list is a function from 0-based indices to Node records, *)
(* exactly as the Vec<Node> of the source.  A fatal error (panic!) is      *)
(* recorded in err; a panicked program takes no further step.              *)
(***************************************************************************)
EXTENDS Integers, Sequences, FiniteSets, TLC

VARIABLES
    ec,            \* the ExactCover source handed to DancingLinks::new
    node_list,     \* DancingLinks.node_list
    num_cols,      \* DancingLinks.num_cols
    row_labels,    \* DancingLinks.row_labels
    pc,            \* position of the program
    frames,        \* activation records of search: [col, r, j]
    partial_soln,  \* the partial solution stack of search
    solutions,     \* the solutions emitted so far, in order
    err,           \* "" or the message of the panic that ended the program
    arena0,        \* the arena as DancingLinks::new returned it
    cstack,        \* history: headers covered and not yet uncovered
    active_only,   \* history: every cover_col so far was given a header that
                   \*   was in the root's l/r cycle at the call
    lifo,          \* history: every uncover_col so far was given the header of
                   \*   the latest cover_col not yet undone
    deepest,       \* history: the largest number of covers in force so far
    size,          \* Sudoku: the size N handed to the encoder
    clue,          \* Sudoku: the placement (row, col, digit) being encoded
    cols4,         \* Sudoku: the result of ec_cols for clue
    ctor,          \* Sudoku: the constructor called: "from_tuples",
                   \*   "from_slice" or "new" (lib.rs)
    checked,       \* the build has overflow checks (debug and test
                   \*   profiles) or wraps (release profile)
    clues,         \* Sudoku: the clues handed to the constructor, as the
                   \*   flat sequence of u8 that from_slice is given
    puzzle         \* Sudoku: the SudokuPuzzle the constructor returned

vars == <<ec, node_list, num_cols, row_labels, pc, frames, partial_soln,
          solutions, err, arena0, cstack, active_only, lifo, deepest,
          size, clue, cols4, ctor, checked, clues, puzzle>>

history == <<cstack, active_only, lifo, deepest>>

dlvars == <<ec, node_list, num_cols, row_labels, pc, frames, partial_soln,
            solutions, err, arena0, history>>

ctorvars == <<ctor, checked, clues, puzzle>>

skvars == <<size, clue, cols4, ctorvars>>

-----------------------------------------------------------------------------
(* Bounds of the model *)

MaxCols == 2       \* generic sources have num_cols in 0..MaxCols
MaxRows == 2       \* and at most MaxRows rows
MaxRowLen == 2     \* of at most MaxRowLen columns each
MaxDepth == 2      \* nesting depth of the cover/uncover driver
MaxK == 3          \* Sudoku box sizes k in 1..MaxK, N = k*k
MaxTake == 2       \* rows taken from a window of the Sudoku row stream

(* Program constants *)

RootSentinel == 1373548555   \* 0x51deb00b, col and data of the root
UsizeMax == -1               \* usize::MAX = 2^64 - 1, what 0 - 1 wraps to
NoColumn == -1               \* 0xabadb00b, "no column chosen yet" in choose_col

-----------------------------------------------------------------------------
(* Sources *)

SeqsUpTo(S, n) == UNION {[1..k -> S] : k \in 0..n}

Distinct(s) == \A i, j \in DOMAIN s : i # j => s[i] # s[j]

\* tests::TestEC: rows are data.iter().cloned().enumerate(), label = row index
TestEC(n, data) ==
    [num_cols |-> n,
     rows |-> [i \in 1..Len(data) |-> [label |-> i - 1, cols |-> data[i]]]]

\* the source of tests::test_dl
KnuthToy == TestEC(6, <<<<0,1>>, <<1,2>>, <<2,3>>, <<3,4>>, <<4,5>>, <<0,5>>>>)

\* the example matrix of Knuth's Dancing Links paper
KnuthPaper ==
    TestEC(7, <<<<2,4,5>>, <<0,3,6>>, <<1,2,5>>, <<0,3>>, <<1,6>>, <<3,4,6>>>>)

OverConstrained == TestEC(2, <<<<0>>, <<0>>>>)

EmptySource == TestEC(3, <<>>)

ThreeDeep == TestEC(4, <<<<3>>, <<0>>, <<2,1>>, <<1>>, <<2>>, <<>>, <<0,3>>>>)

\* column 1 occurs in no row
Gapped == TestEC(4, <<<<0>>, <<2,3>>, <<3>>, <<2>>, <<0,2>>>>)

NamedSources ==
    {KnuthToy, KnuthPaper, OverConstrained, EmptySource, ThreeDeep, Gapped}

\* sources that keep the ExactCover contract: in-range, distinct columns
ValidRows(n) == {s \in SeqsUpTo(0..(n - 1), MaxRowLen) : Distinct(s)}

\* src is a source of n columns and at most MaxRows rows that keeps the
\* contract, or one of the named sources
IsValidSource(src) ==
    \/ \E n \in 0..MaxCols :
          \E data \in SeqsUpTo(ValidRows(n), MaxRows) : src = TestEC(n, data)
    \/ src \in NamedSources

\* some row of the source names a column >= num_cols
HasColumnOutOfRange(src) ==
    \E k \in DOMAIN src.rows :
        \E i \in DOMAIN src.rows[k].cols : src.rows[k].cols[i] >= src.num_cols

\* some row of the source names a column more than once
HasDuplicateColumn(src) ==
    \E k \in DOMAIN src.rows : ~Distinct(src.rows[k].cols)

\* the source keeps the contract of ExactCover: every row names columns of
\* [0, num_cols), each at most once
KeepsContract(src) == ~HasColumnOutOfRange(src) /\ ~HasDuplicateColumn(src)

\* any rows at all: duplicates within a row and the out-of-range column n
AnyRows(n) == SeqsUpTo(0..n, MaxRowLen)

\* data with row put in as its k-th row
InsertRow(data, k, row) ==
    SubSeq(data, 1, k - 1) \o <<row>> \o SubSeq(data, k, Len(data))

\* src is a source of at most MaxRows rows with one arbitrary row among rows
\* that keep the contract (the first panic ends construction, so one
\* arbitrary row per source shows every outcome of new), or a valid source
IsAnySource(src) ==
    \/ \E n \in 0..MaxCols :
          \E data \in SeqsUpTo(ValidRows(n), MaxRows - 1) :
             \E k \in 1..(Len(data) + 1), row \in AnyRows(n) :
                src = TestEC(n, InsertRow(data, k, row))
    \/ IsValidSource(src)

-----------------------------------------------------------------------------
(* The arena *)

NLen(nl) == Cardinality(DOMAIN nl)

Push(nl, node) ==
    LET n == NLen(nl) IN [i \in 0..n |-> IF i < n THEN nl[i] ELSE node]

\* DancingLinks::setup_headers
setup_headers(n) ==
    [i \in 0..n |->
        IF i = 0
        THEN [l |-> n, r |-> 1, u |-> 0, d |-> 0,
              col |-> RootSentinel, data |-> RootSentinel]
        ELSE [l |-> i - 1, r |-> (i + 1) % (n + 1), u |-> i, d |-> i,
              col |-> i - 1, data |-> 0]]

\* the test below off by one: the last column is refused too
exceeds_bounds_early(col, n) == col + 1 >= n

\* add_row's test of a column index against num_cols
exceeds_bounds(col, n) == col >= n

\* DancingLinks::header_index: [idx, err]
header_index(col, n) ==
    IF col >= n
    THEN [idx |-> 0, err |-> "header exceeded column bounds"]
    ELSE [idx |-> col + 1, err |-> ""]

\* DancingLinks::add_row, the body of its loop from position i (0-based) on;
\* st = [nl, err], idx = node_list.len()
RECURSIVE add_row_loop(_, _, _, _, _, _)
add_row_loop(st, n, row, row_num, row_start, i) ==
    IF st.err # "" \/ i >= Len(row) THEN st
    ELSE LET col == row[i + 1]
             nl == st.nl
             idx == NLen(nl)
             hi == header_index(col, n)
         IN IF exceeds_bounds(col, n)
            THEN [st EXCEPT !.err = "row exceeded column bounds"]
            ELSE IF hi.err # ""
            THEN [st EXCEPT !.err = hi.err]
            ELSE LET header == hi.idx
                     new_node ==
                        [l |-> ((i + Len(row) - 1) % Len(row)) + row_start,
                         r |-> ((i + Len(row) + 1) % Len(row)) + row_start,
                         u |-> nl[header].u,
                         d |-> header,
                         col |-> header,
                         data |-> row_num]
                     a == [nl EXCEPT ![new_node.u].d = idx]
                     b == [a EXCEPT ![header].u = idx]
                     c == [b EXCEPT ![header].data = @ + 1]
                 IN add_row_loop([st EXCEPT !.nl = Push(c, new_node)],
                                 n, row, row_num, row_start, i + 1)

\* DancingLinks::add_row; st = [nl, labels, err]
add_row(st, n, labelled) ==
    LET row_num == Len(st.labels)
        res == add_row_loop([nl |-> st.nl, err |-> st.err], n, labelled.cols,
                            row_num, NLen(st.nl), 0)
    IN [nl |-> res.nl, labels |-> Append(st.labels, labelled.label),
        err |-> res.err]

\* DancingLinks::remove_empty_cols, from header idx on
RECURSIVE remove_empty_cols_from(_, _, _)
remove_empty_cols_from(nl, n, idx) ==
    IF idx > n THEN nl
    ELSE LET node == nl[idx]
         IN IF nl[idx].d = idx
            THEN LET a == [nl EXCEPT ![node.l].r = node.r]
                     b == [a EXCEPT ![node.r].l = node.l]
                 IN remove_empty_cols_from(b, n, idx + 1)
            ELSE remove_empty_cols_from(nl, n, idx + 1)

\* remove_empty_cols that detaches nothing
remove_empty_cols_none(nl, n) == nl

remove_empty_cols(nl, n) == remove_empty_cols_from(nl, n, 1)

\* the for loop of DancingLinks::new over ec.exact_cover_rows(), from row k on;
\* a panic in add_row ends it
RECURSIVE add_rows(_, _, _, _)
add_rows(st, n, rows, k) ==
    IF st.err # "" \/ k > Len(rows) THEN st
    ELSE add_rows(add_row(st, n, rows[k]), n, rows, k + 1)

\* DancingLinks::new: [nl, labels, err]
New(src) ==
    LET n == src.num_cols
        st == add_rows([nl |-> setup_headers(n), labels |-> <<>>, err |-> ""],
                       n, src.rows, 1)
    IN IF st.err # "" THEN st
       ELSE [st EXCEPT !.nl = remove_empty_cols(st.nl, n)]

-----------------------------------------------------------------------------
(* cover and uncover; st = [nl, err].  data is a usize.  A usize below    *)
(* 2^31 is held as itself; one of the top of the range is held as the     *)
(* negative number it is in two's complement (usize::MAX is -1), so that  *)
(* wrapping arithmetic is plain arithmetic and only the order differs.    *)
(* Decrementing a 0 panics ("attempt to subtract with overflow") in a     *)
(* build with overflow checks (chk: debug and test builds) and wraps to   *)
(* usize::MAX in a build without them (release), where the loop goes on.  *)

\* a < b on usize
ult(a, b) == IF (a >= 0) = (b >= 0) THEN a < b ELSE a >= 0

\* cover_row without the decrement of the column's size
RECURSIVE cover_row_nodec(_, _, _, _)
cover_row_nodec(st, i, j, chk) ==
    IF st.err # "" \/ j = i THEN st
    ELSE LET nl == st.nl
             node == nl[j]
             a == [nl EXCEPT ![node.d].u = node.u]
             b == [a EXCEPT ![node.u].d = node.d]
         IN cover_row_nodec([nl |-> b, err |-> ""], i, node.r, chk)

\* the inner while loop of cover_col: j runs right from i.r until it is i
RECURSIVE cover_row(_, _, _, _)
cover_row(st, i, j, chk) ==
    IF st.err # "" \/ j = i THEN st
    ELSE LET nl == st.nl
             node == nl[j]
             a == [nl EXCEPT ![node.d].u = node.u]
             b == [a EXCEPT ![node.u].d = node.d]
         IN IF chk /\ b[node.col].data = 0
            THEN [nl |-> b, err |-> "attempt to subtract with overflow"]
            ELSE cover_row([nl |-> [b EXCEPT ![node.col].data = @ - 1],
                            err |-> ""], i, node.r, chk)

\* cover_rows that leaves the rows of the column in place
cover_rows_none(st, header_idx, i, chk) == st

\* the outer while loop of cover_col: i runs down from header.d
RECURSIVE cover_rows(_, _, _, _)
cover_rows(st, header_idx, i, chk) ==
    IF st.err # "" \/ i = header_idx THEN st
    ELSE LET s2 == cover_row(st, i, st.nl[i].r, chk)
         IN cover_rows(s2, header_idx, s2.nl[i].d, chk)

\* cover_col that also resets the l and r of the covered header to itself
cover_col_selfloop(nl, header_idx, chk) ==
    LET header_node == nl[header_idx]
        a == [nl EXCEPT ![header_node.l].r = header_node.r]
        b == [a EXCEPT ![header_node.r].l = header_node.l]
        c == [b EXCEPT ![header_idx].l = header_idx, ![header_idx].r = header_idx]
    IN cover_rows([nl |-> c, err |-> ""], header_idx, header_node.d, chk)

\* DancingLinks::cover_col in a build with (chk) or without overflow checks
cover_col(nl, header_idx, chk) ==
    LET header_node == nl[header_idx]
        a == [nl EXCEPT ![header_node.l].r = header_node.r]
        b == [a EXCEPT ![header_node.r].l = header_node.l]
    IN cover_rows([nl |-> b, err |-> ""], header_idx, header_node.d, chk)

\* uncover_row that relinks nothing
uncover_row_none(nl, i, j) == nl

\* the inner while loop of uncover_col: j runs left from i.l until it is i;
\* the increment takes a size that cover_col wrapped to usize::MAX back to 0
\* (a build with overflow checks never holds such a size)
RECURSIVE uncover_row(_, _, _)
uncover_row(nl, i, j) ==
    IF j = i THEN nl
    ELSE LET node == nl[j]
             a == [nl EXCEPT ![node.col].data = @ + 1]
             b == [a EXCEPT ![node.u].d = j]
             c == [b EXCEPT ![node.d].u = j]
         IN uncover_row(c, i, node.l)

\* uncover_rows that steps down (i = node_list[i].d) instead of up
RECURSIVE uncover_rows_down(_, _, _)
uncover_rows_down(nl, header_idx, i) ==
    IF i = header_idx THEN nl
    ELSE LET n2 == uncover_row(nl, i, nl[i].l)
         IN uncover_rows_down(n2, header_idx, n2[i].d)

\* the outer while loop of uncover_col: i runs up from header.u
RECURSIVE uncover_rows(_, _, _)
uncover_rows(nl, header_idx, i) ==
    IF i = header_idx THEN nl
    ELSE LET n2 == uncover_row(nl, i, nl[i].l)
         IN uncover_rows(n2, header_idx, n2[i].u)

\* uncover_col that puts the header back into the r-chain only
uncover_col_half(nl, header_idx) ==
    LET header_node == nl[header_idx]
        a == uncover_rows(nl, header_idx, nl[header_idx].u)
    IN [a EXCEPT ![header_node.l].r = header_idx]

\* DancingLinks::uncover_col
uncover_col(nl, header_idx) ==
    LET header_node == nl[header_idx]
        a == uncover_rows(nl, header_idx, nl[header_idx].u)
        b == [a EXCEPT ![header_node.l].r = header_idx]
    IN [b EXCEPT ![header_node.r].l = header_idx]

\* the loop of choose_col with <= for <: the last minimal header wins
RECURSIVE choose_col_loop_last(_, _, _, _)
choose_col_loop_last(nl, c, min, min_idx) ==
    IF c = 0 THEN [idx |-> min_idx, err |-> ""]
    ELSE IF c \notin DOMAIN nl
    THEN [idx |-> min_idx, err |-> "index out of bounds"]
    ELSE IF nl[c].data = min \/ ult(nl[c].data, min)
    THEN choose_col_loop_last(nl, nl[c].r, nl[c].data, c)
    ELSE choose_col_loop_last(nl, nl[c].r, min, min_idx)

\* the while loop of choose_col; a header index outside the arena panics
RECURSIVE choose_col_loop(_, _, _, _)
choose_col_loop(nl, c, min, min_idx) ==
    IF c = 0 THEN [idx |-> min_idx, err |-> ""]
    ELSE IF c \notin DOMAIN nl
    THEN [idx |-> min_idx, err |-> "index out of bounds"]
    ELSE IF ult(nl[c].data, min)
    THEN choose_col_loop(nl, nl[c].r, nl[c].data, c)
    ELSE choose_col_loop(nl, nl[c].r, min, min_idx)

\* DancingLinks::choose_col: [idx, err]
choose_col(nl) ==
    LET res == choose_col_loop(nl, nl[0].r, UsizeMax, NoColumn)
    IN IF res.err = "" /\ res.idx = NoColumn
       THEN [res EXCEPT !.err = "error choosing column"]
       ELSE res

\* the headers met following r from the root, in order (the walk of
\* choose_col); it stops at the root or at an index outside the arena
RECURSIVE root_walk(_, _, _)
root_walk(nl, c, fuel) ==
    IF c = 0 \/ c \notin DOMAIN nl \/ fuel = 0 THEN <<>>
    ELSE <<c>> \o root_walk(nl, nl[c].r, fuel - 1)

ActiveHeaders(nl) == root_walk(nl, nl[0].r, NLen(nl))

\* the same walk following l
RECURSIVE root_walk_left(_, _, _)
root_walk_left(nl, c, fuel) ==
    IF c = 0 \/ c \notin DOMAIN nl \/ fuel = 0 THEN <<>>
    ELSE <<c>> \o root_walk_left(nl, nl[c].l, fuel - 1)

Range(s) == {s[k] : k \in DOMAIN s}

InRootList(nl, h) == h \in Range(ActiveHeaders(nl))

\* the nodes met following d from a header until the header is met again
\* (the walk of cover_col and of search over a column)
RECURSIVE column_walk(_, _, _, _)
column_walk(nl, h, i, fuel) ==
    IF i = h \/ fuel = 0 THEN <<>>
    ELSE <<i>> \o column_walk(nl, h, nl[i].d, fuel - 1)

ColumnNodes(nl, h) == column_walk(nl, h, nl[h].d, NLen(nl))

Max(a, b) == IF a >= b THEN a ELSE b

\* the labels search prints for a partial solution
SolutionOf(nl, labels, partial) ==
    [k \in 1..Len(partial) |-> labels[nl[partial[k]].data + 1]]

-----------------------------------------------------------------------------
(* print_solutions: search as a state machine.  The top of frames holds   *)
(* the locals col, r and j of the running activation of search.           *)

Top == frames[Len(frames)]

SetTop(f) == [frames EXCEPT ![Len(frames)] = f]

Pop(s) == SubSeq(s, 1, Len(s) - 1)

\* history of a call cover_col(h) made in the current state
NoteCover(h) ==
    /\ cstack' = Append(cstack, h)
    /\ active_only' = (active_only /\ InRootList(node_list, h))
    /\ deepest' = Max(deepest, Len(cstack) + 1)
    /\ lifo' = lifo

\* history of a call uncover_col(h) made in the current state
NoteUncover(h) ==
    /\ cstack' = Pop(cstack)
    /\ lifo' = (lifo /\ cstack # <<>> /\ cstack[Len(cstack)] = h)
    /\ UNCHANGED <<active_only, deepest>>

Running == err = ""

\* return from an activation of search: to the caller's loop over the row's
\* left siblings (j = node_list[r].l), or out of print_solutions
ReturnTo(fr, nl) ==
    IF fr = <<>>
    THEN /\ pc' = "done"
         /\ frames' = fr
    ELSE /\ pc' = "uncover_j"
         /\ frames' = [fr EXCEPT ![Len(fr)].j = nl[fr[Len(fr)].r].l]

\* search, base case: no active column; print the solution and return
SearchSolution ==
    /\ Running /\ pc = "search"
    /\ node_list[0].r = 0
    /\ solutions' = Append(solutions,
                           SolutionOf(node_list, row_labels, partial_soln))
    /\ ReturnTo(frames, node_list)
    /\ UNCHANGED <<ec, node_list, num_cols, row_labels, partial_soln, err,
                   arena0, history, skvars>>

\* search: choose_col, cover_col(col), r = node_list[col].d
SearchCover ==
    /\ Running /\ pc = "search"
    /\ node_list[0].r # 0
    /\ LET ch == choose_col(node_list)
       IN IF ch.err # ""
          THEN /\ err' = ch.err
               /\ UNCHANGED <<node_list, frames, pc, history>>
          ELSE LET res == cover_col(node_list, ch.idx, checked)
               IN /\ node_list' = res.nl
                  /\ err' = res.err
                  /\ frames' = Append(frames,
                        [col |-> ch.idx, r |-> res.nl[ch.idx].d, j |-> 0])
                  /\ pc' = "row"
                  /\ NoteCover(ch.idx)
    /\ UNCHANGED <<ec, num_cols, row_labels, partial_soln, solutions, arena0,
                   skvars>>

\* while r != col: push r, j = node_list[r].r
RowPush ==
    /\ Running /\ pc = "row"
    /\ Top.r # Top.col
    /\ partial_soln' = Append(partial_soln, Top.r)
    /\ frames' = SetTop([Top EXCEPT !.j = node_list[Top.r].r])
    /\ pc' = "cover_j"
    /\ UNCHANGED <<ec, node_list, num_cols, row_labels, solutions, err,
                   arena0, history, skvars>>

\* while j != r: cover_col(node_list[j].col), j = node_list[j].r
CoverSibling ==
    /\ Running /\ pc = "cover_j"
    /\ Top.j # Top.r
    /\ LET res == cover_col(node_list, node_list[Top.j].col, checked)
       IN /\ node_list' = res.nl
          /\ err' = res.err
          /\ frames' = SetTop([Top EXCEPT !.j = res.nl[Top.j].r])
    /\ NoteCover(node_list[Top.j].col)
    /\ UNCHANGED <<ec, num_cols, row_labels, pc, partial_soln, solutions,
                   arena0, skvars>>

\* self.search(partial_soln, k+1)
Recurse ==
    /\ Running /\ pc = "cover_j"
    /\ Top.j = Top.r
    /\ pc' = "search"
    /\ UNCHANGED <<ec, node_list, num_cols, row_labels, frames, partial_soln,
                   solutions, err, arena0, history, skvars>>

\* while j != r: uncover_col(node_list[j].col), j = node_list[j].l
UncoverSibling ==
    /\ Running /\ pc = "uncover_j"
    /\ Top.j # Top.r
    /\ LET nl == uncover_col(node_list, node_list[Top.j].col)
       IN /\ node_list' = nl
          /\ frames' = SetTop([Top EXCEPT !.j = nl[Top.j].l])
    /\ NoteUncover(node_list[Top.j].col)
    /\ UNCHANGED <<ec, num_cols, row_labels, pc, partial_soln, solutions, err,
                   arena0, skvars>>

\* RowNext that leaves the loop over r after the first row
RowNextBreak ==
    /\ Running /\ pc = "uncover_j"
    /\ Top.j = Top.r
    /\ partial_soln' = Pop(partial_soln)
    /\ frames' = SetTop([Top EXCEPT !.r = Top.col])
    /\ pc' = "row"
    /\ UNCHANGED <<ec, node_list, num_cols, row_labels, solutions, err,
                   arena0, history, skvars>>

\* partial_soln.pop(), r = node_list[r].d
RowNext ==
    /\ Running /\ pc = "uncover_j"
    /\ Top.j = Top.r
    /\ partial_soln' = Pop(partial_soln)
    /\ frames' = SetTop([Top EXCEPT !.r = node_list[Top.r].d])
    /\ pc' = "row"
    /\ UNCHANGED <<ec, node_list, num_cols, row_labels, solutions, err,
                   arena0, history, skvars>>

\* the loop over r ended: uncover_col(col) and return
SearchReturn ==
    /\ Running /\ pc = "row"
    /\ Top.r = Top.col
    /\ LET nl == uncover_col(node_list, Top.col)
       IN /\ node_list' = nl
          /\ ReturnTo(Pop(frames), nl)
    /\ NoteUncover(Top.col)
    /\ UNCHANGED <<ec, num_cols, row_labels, partial_soln, solutions, err,
                   arena0, skvars>>

\* the parts of the state a specification does not use
IdleSearch ==
    /\ frames = <<>>
    /\ partial_soln = <<>>
    /\ solutions = <<>>
    /\ cstack = <<>>
    /\ active_only = TRUE
    /\ lifo = TRUE
    /\ deepest = 0

IdleEncode ==
    /\ clue = <<0, 0, 0>>
    /\ cols4 = <<>>

\* the value of puzzle while no constructor has returned
NoPuzzle == [size |-> 0, covered_cols |-> {}]

IdleCtor ==
    /\ ctor = "none"
    /\ clues = <<>>
    /\ puzzle = NoPuzzle

IdleSudoku ==
    /\ size = 0
    /\ IdleEncode
    /\ IdleCtor

IdleMatrix ==
    /\ ec = TestEC(0, <<>>)
    /\ node_list = <<>>
    /\ num_cols = 0
    /\ row_labels = <<>>
    /\ err = ""
    /\ arena0 = <<>>

\* the state in which DancingLinks::new has returned the matrix of ec
BuiltOf(at) ==
    LET built == New(ec)
    IN /\ node_list = built.nl
       /\ num_cols = ec.num_cols
       /\ row_labels = built.labels
       /\ err = built.err
       /\ arena0 = built.nl
       /\ pc = at
       /\ IdleSearch

Built(at) == BuiltOf(at) /\ IdleSudoku

\* the program: DancingLinks::new(source) followed by print_solutions(), on
\* every source new returns a matrix for (rows with a repeated column
\* included, which add_row accepts), in either build; the sources new panics
\* on are in SpecBuild
Init ==
    /\ IsAnySource(ec)
    /\ ~HasColumnOutOfRange(ec)
    /\ checked \in BOOLEAN
    /\ Built("search")

Next ==
    \/ SearchSolution
    \/ SearchCover
    \/ RowPush
    \/ CoverSibling
    \/ Recurse
    \/ UncoverSibling
    \/ RowNext
    \/ SearchReturn

Spec == Init /\ [][Next]_vars

-----------------------------------------------------------------------------
(* A driver of the two primitives on any matrix DancingLinks::new returns *)
(* (rows with a repeated column included, which new accepts): any header  *)
(* may be covered, and the latest cover not yet undone may be undone.  The *)
(* driver starts no further cover once a cover was given a header that    *)
(* was not in the root's list; the covers in force are still undone.      *)

CoverAny(h) ==
    /\ Running /\ pc = "driver"
    /\ Len(cstack) < MaxDepth
    /\ active_only
    /\ LET res == cover_col(node_list, h, checked)
       IN /\ node_list' = res.nl
          /\ err' = res.err
    /\ NoteCover(h)
    /\ UNCHANGED <<ec, num_cols, row_labels, pc, frames, partial_soln,
                   solutions, arena0, skvars>>

UncoverLatest ==
    /\ Running /\ pc = "driver"
    /\ cstack # <<>>
    /\ node_list' = uncover_col(node_list, cstack[Len(cstack)])
    /\ NoteUncover(cstack[Len(cstack)])
    /\ UNCHANGED <<ec, num_cols, row_labels, pc, frames, partial_soln,
                   solutions, err, arena0, skvars>>

InitDriver ==
    /\ IsAnySource(ec)
    /\ ~HasColumnOutOfRange(ec)
    /\ checked \in BOOLEAN
    /\ Built("driver")

NextDriver ==
    \/ \E h \in 1..num_cols : CoverAny(h)
    \/ UncoverLatest

SpecDriver == InitDriver /\ [][NextDriver]_vars

-----------------------------------------------------------------------------
(* Construction alone, on sources that may break the ExactCover contract. *)

InitBuild ==
    /\ IsAnySource(ec)
    /\ node_list = <<>>
    /\ num_cols = 0
    /\ row_labels = <<>>
    /\ err = ""
    /\ arena0 = <<>>
    /\ pc = "new"
    /\ IdleSearch
    /\ IdleSudoku
    /\ checked = TRUE     \* no arithmetic of new depends on the build

\* DancingLinks::new(ec): the matrix, or the panic that ended construction
Construct ==
    /\ pc = "new"
    /\ LET built == New(ec)
       IN /\ node_list' = built.nl
          /\ row_labels' = built.labels
          /\ err' = built.err
          /\ arena0' = built.nl
    /\ num_cols' = ec.num_cols
    /\ pc' = "built"
    /\ UNCHANGED <<ec, frames, partial_soln, solutions, history, skvars>>

NextBuild == Construct

SpecBuild == InitBuild /\ [][NextBuild]_vars

-----------------------------------------------------------------------------
(* The Sudoku encoder (src/src/sudoku.rs).  A clue is <<row, col, num>>,  *)
(* the slice of three u8 the source indexes 0, 1, 2; size is a usize.     *)

\* (size as f64).sqrt().trunc() as usize
sqrt_trunc(n) == CHOOSE b \in 0..n : b * b <= n /\ n < (b + 1) * (b + 1)

\* box_idx with row and column exchanged
box_idx_swapped(c, n) ==
    LET box_size == sqrt_trunc(n)
    IN (c[2] \div box_size) + (c[1] \div box_size) * box_size

\* SudokuPuzzle::box_idx
box_idx(c, n) ==
    LET box_size == sqrt_trunc(n)
    IN (c[1] \div box_size) + (c[2] \div box_size) * box_size

\* SudokuPuzzle::xy_col
xy_col(c, n) == c[1] + c[2] * n

\* SudokuPuzzle::xn_col
xn_col(c, n) == n * n + c[3] + c[1] * n

\* SudokuPuzzle::yn_col
yn_col(c, n) == n * n * 2 + c[3] + c[2] * n

\* SudokuPuzzle::boxn_col
boxn_col(c, n) == n * n * 3 + c[3] + box_idx(c, n) * n

\* SudokuPuzzle::ec_cols
ec_cols(c, n) == <<xy_col(c, n), xn_col(c, n), yn_col(c, n), boxn_col(c, n)>>

\* SudokuPuzzle::exact_cover_num_cols
exact_cover_num_cols(n) == n * n * 4

\* the placements of an N x N puzzle
Placements(n) == (0..(n - 1)) \X (0..(n - 1)) \X (0..(n - 1))

InitSudoku ==
    /\ size \in {b * b : b \in 1..MaxK}
    /\ IdleEncode
    /\ IdleCtor
    /\ checked = TRUE     \* no arithmetic of ec_cols depends on the build
    /\ pc = "encode"
    /\ IdleMatrix
    /\ IdleSearch

\* ec_cols applied to a placement of the puzzle
Encode(c) ==
    /\ pc = "encode"
    /\ cols4 = <<>>
    /\ clue' = c
    /\ cols4' = ec_cols(c, size)
    /\ UNCHANGED <<size, dlvars, ctorvars>>

NextSudoku == \E c \in Placements(size) : Encode(c)

SpecSudoku == InitSudoku /\ [][NextSudoku]_vars

-----------------------------------------------------------------------------
(* The Sudoku constructors: from_tuples and from_slice (src/src/sudoku.rs, *)
(* size: u8, covered_cols: FixedBitSet) and SudokuPuzzle::new              *)
(* (src/src/lib.rs, size: usize, covered_cols: HashSet<usize>).  A         *)
(* constructor yields [puzzle, err]; a FixedBitSet is [len, ones].         *)

\* a * b in u8: the wrapped product and whether the product left u8
mul_u8(a, b) == [val |-> (a * b) % 256, overflow |-> a * b > 255]

\* (size as f64).sqrt().fract() >= 1e-10
not_square(n) == sqrt_trunc(n) * sqrt_trunc(n) # n

\* FixedBitSet::with_capacity(bits)
with_capacity(bits) == [len |-> bits, ones |-> {}]

\* FixedBitSet::put(bit): [bs, was, err]; a bit past the length panics
put(bs, bit) ==
    IF bit >= bs.len
    THEN [bs |-> bs, was |-> FALSE,
          err |-> "put at index exceeds fixedbitset size"]
    ELSE [bs |-> [bs EXCEPT !.ones = @ \cup {bit}], was |-> bit \in bs.ones,
          err |-> ""]

\* FixedBitSet::contains(bit): false past the length
contains(bs, bit) == bit < bs.len /\ bit \in bs.ones

\* clues.chunks(3): consecutive groups of three, the last one shorter when the
\* length is not a multiple of three
chunks3(bytes) ==
    [k \in 1..((Len(bytes) + 2) \div 3) |->
        SubSeq(bytes, 3 * k - 2, IF 3 * k <= Len(bytes) THEN 3 * k
                                 ELSE Len(bytes))]

\* clue[0] >= size || clue[1] >= size || clue[2] >= size, left to right; an
\* index past the end of a short chunk panics
clue_check(c, n) ==
    IF c[1] >= n THEN "clue outside bounds"
    ELSE IF Len(c) < 2 THEN "index out of bounds"
    ELSE IF c[2] >= n THEN "clue outside bounds"
    ELSE IF Len(c) < 3 THEN "index out of bounds"
    ELSE IF c[3] >= n THEN "clue outside bounds"
    ELSE ""

\* for col in ec_cols(clue, size) { if covered_cols.put(col) { panic } },
\* from the k-th column on; st = [bs, err]
RECURSIVE put_cols(_, _, _)
put_cols(st, cols, k) ==
    IF st.err # "" \/ k > Len(cols) THEN st
    ELSE LET p == put(st.bs, cols[k])
         IN IF p.err # "" THEN [st EXCEPT !.err = p.err]
            ELSE IF p.was
            THEN [bs |-> p.bs, err |-> "conflict with previous clues"]
            ELSE put_cols([bs |-> p.bs, err |-> ""], cols, k + 1)

\* the for loop over the clues of from_tuples and from_slice, from the k-th
\* clue on; st = [bs, err]
RECURSIVE clue_loop(_, _, _, _)
clue_loop(st, cs, n, k) ==
    IF st.err # "" \/ k > Len(cs) THEN st
    ELSE LET e == clue_check(cs[k], n)
         IN IF e # "" THEN [st EXCEPT !.err = e]
            ELSE clue_loop(put_cols(st, ec_cols(cs[k], n), 1), cs, n, k + 1)

\* the value a constructor hands back: the puzzle, or the panic
Returned(n, st) ==
    [puzzle |-> IF st.err = "" THEN [size |-> n, covered_cols |-> st.bs]
                ELSE NoPuzzle,
     err |-> st.err]

Panicked(msg) == [puzzle |-> NoPuzzle, err |-> msg]

\* SudokuPuzzle::from_tuples; the capacity (size*size*4) as usize is computed
\* in u8: with overflow checks a product above 255 panics, without it wraps
from_tuples(cs, n, chk) ==
    IF not_square(n) THEN Panicked("size not a square number")
    ELSE LET m1 == mul_u8(n, n)
             m2 == mul_u8(m1.val, 4)
         IN IF chk /\ (m1.overflow \/ m2.overflow)
            THEN Panicked("attempt to multiply with overflow")
            ELSE Returned(n, clue_loop([bs |-> with_capacity(m2.val),
                                        err |-> ""], cs, n, 1))

\* SudokuPuzzle::from_slice; the capacity is computed in usize
from_slice(bytes, n) ==
    IF not_square(n) THEN Panicked("size not a square number")
    ELSE Returned(n, clue_loop([bs |-> with_capacity(n * n * 4), err |-> ""],
                               chunks3(bytes), n, 1))

\* for &cols in &ec_cols(&clue, size) { if !covered_cols.insert(cols) {
\* panic } } of SudokuPuzzle::new, from the k-th column on; st = [bs, err]
\* with bs the HashSet
RECURSIVE insert_cols(_, _, _)
insert_cols(st, cols, k) ==
    IF st.err # "" \/ k > Len(cols) THEN st
    ELSE IF cols[k] \in st.bs
    THEN [st EXCEPT !.err = "conflict with previous clues"]
    ELSE insert_cols([st EXCEPT !.bs = @ \cup {cols[k]}], cols, k + 1)

\* the for loop over the clues of SudokuPuzzle::new, from the k-th clue on
RECURSIVE new_loop(_, _, _, _)
new_loop(st, cs, n, k) ==
    IF st.err # "" \/ k > Len(cs) THEN st
    ELSE IF cs[k][1] >= n \/ cs[k][2] >= n \/ cs[k][3] >= n
    THEN [st EXCEPT !.err = "clue outside bounds"]
    ELSE new_loop(insert_cols(st, ec_cols(cs[k], n), 1), cs, n, k + 1)

\* SudokuPuzzle::new of lib.rs
new_puzzle(cs, n) ==
    IF not_square(n) THEN Panicked("size not a square number")
    ELSE Returned(n, new_loop([bs |-> {}, err |-> ""], cs, n, 1))

\* the constructor ctor applied to the clues
Constructed(which, bytes, n, chk) ==
    IF which = "from_tuples" THEN from_tuples(chunks3(bytes), n, chk)
    ELSE IF which = "from_slice" THEN from_slice(bytes, n)
    ELSE new_puzzle(chunks3(bytes), n)

\* the columns a row must avoid: one of them is covered by a clue, for the
\* cell column only
is_covered_cell_only(which, p, cols) ==
    IF which = "new" THEN cols[1] \in p.covered_cols
    ELSE contains(p.covered_cols, cols[1])

\* ec_cols.iter().any(|&col| self.covered_cols.contains(col))
is_covered(which, p, cols) ==
    \E k \in DOMAIN cols :
        IF which = "new" THEN cols[k] \in p.covered_cols
        ELSE contains(p.covered_cols, cols[k])

RECURSIVE Concat(_)
Concat(ss) == IF ss = <<>> THEN <<>> ELSE Head(ss) \o Concat(Tail(ss))

\* (0..size).flat_map(x -> (0..size).map(y -> (x, y)))
\*          .flat_map((x, y) -> (0..size).map(n -> (x, y, n)))
all_triples(n) ==
    Concat([x \in 1..n |->
        Concat([y \in 1..n |-> [d \in 1..n |-> <<x - 1, y - 1, d - 1>>]])])

\* v as u8
as_u8(v) == v % 256

\* the label made of (x, y, n): lib.rs builds SudokuClue { row: x as u8,
\* col: y as u8, num: n as u8 } from usize ranges; in sudoku.rs the ranges
\* are u8 ranges and the label is the tuple itself
label_of(which, t) ==
    IF which = "new" THEN <<as_u8(t[1]), as_u8(t[2]), as_u8(t[3])>> ELSE t

\* .map(|clue| (clue, ec_cols(&clue, size))): the columns are those of the
\* label
row_of(which, t, n) ==
    [label |-> label_of(which, t), cols |-> ec_cols(label_of(which, t), n)]

\* SudokuPuzzle::exact_cover_rows: the stream of (label, columns)
exact_cover_rows(which, p) ==
    LET n == p.size
        all == all_triples(n)
        with_cols == [i \in DOMAIN all |-> row_of(which, all[i], n)]
        kept(row) == ~is_covered(which, p, row.cols)
    IN SelectSeq(with_cols, kept)

\* the (x, y, n) the nested ranges of exact_cover_rows yield after t; the
\* ranges are exhausted when x reaches size
advance(t, n) ==
    IF t[3] + 1 < n THEN <<t[1], t[2], t[3] + 1>>
    ELSE IF t[2] + 1 < n THEN <<t[1], t[2] + 1, 0>>
    ELSE <<t[1] + 1, 0, 0>>

\* next() of the iterator exact_cover_rows returns, its ranges standing at
\* t: the first row from t on that the filter lets pass, or None
RECURSIVE next_row(_, _, _)
next_row(which, p, t) ==
    IF t[1] >= p.size
    THEN [some |-> FALSE, row |-> [label |-> <<>>, cols |-> <<>>], pos |-> t]
    ELSE LET row == row_of(which, t, p.size)
         IN IF is_covered(which, p, row.cols)
            THEN next_row(which, p, advance(t, p.size))
            ELSE [some |-> TRUE, row |-> row, pos |-> advance(t, p.size)]

\* the ExactCover source a puzzle is
SourceOf(which, p) ==
    [num_cols |-> exact_cover_num_cols(p.size),
     rows |-> exact_cover_rows(which, p)]

\* the values a field of a clue is drawn from: the ends of [0, N) and N
FieldValues(n) == {v \in {0, 1, n - 1, n} : v >= 0}

ClueValues(n) == FieldValues(n) \X FieldValues(n) \X FieldValues(n)

\* what may follow the last whole triple of the slice given to from_slice
Tails == {<<>>, <<0>>, <<0, 0>>}

\* a constructor is called with no clue, one clue or two clues
InitPuzzle ==
    /\ size \in 0..(MaxK * MaxK)
    /\ ctor \in {"from_tuples", "from_slice", "new"}
    /\ checked \in BOOLEAN
    /\ ctor # "from_tuples" => checked
    /\ \E a, b \in ClueValues(size), t \in Tails :
          /\ ctor # "from_slice" => t = <<>>
          /\ clues \in {t, a \o t, a \o b \o t}
    /\ puzzle = NoPuzzle
    /\ pc = "clues"
    /\ IdleMatrix
    /\ IdleSearch
    /\ IdleEncode

\* the constructor returns or panics
MakePuzzle ==
    /\ pc = "clues"
    /\ LET res == Constructed(ctor, clues, size, checked)
       IN /\ puzzle' = res.puzzle
          /\ err' = res.err
    /\ pc' = "puzzle"
    /\ UNCHANGED <<ec, node_list, num_cols, row_labels, frames, partial_soln,
                   solutions, arena0, history, size, clue, cols4, ctor,
                   checked, clues>>

\* exact_cover_num_cols() and exact_cover_rows(), as DancingLinks::new
\* consumes them
EmitRows ==
    /\ pc = "puzzle" /\ err = ""
    /\ ec' = SourceOf(ctor, puzzle)
    /\ pc' = "rows"
    /\ UNCHANGED <<node_list, num_cols, row_labels, frames, partial_soln,
                   solutions, err, arena0, history, skvars>>

NextPuzzle == MakePuzzle \/ EmitRows

SpecPuzzle == InitPuzzle /\ [][NextPuzzle]_vars

-----------------------------------------------------------------------------
(* A window of the row stream: exact_cover_rows().skip(k).take(MaxTake) on *)
(* a puzzle a constructor returned.  clue holds the (x, y, n) the ranges   *)
(* of the iterator stand at, ec.rows the rows taken so far.  The sizes are *)
(* a small one and the squares around the width of the labels' fields:     *)
(* 15^2 = 225 is the largest square a u8 size holds (sudoku.rs), 16^2 =    *)
(* 256 and 17^2 = 289 lie on either side of what a u8 field of a label     *)
(* holds (lib.rs, size: usize).                                            *)

StreamSizes(which) == IF which = "new" THEN {4, 256, 289} ELSE {4, 225}

\* the ends of the ranges and of the u8 values
StreamEdges(n) == {v \in {0, 1, 254, 255, 256, n - 1} : v < n}

InitStream ==
    /\ ctor \in {"from_tuples", "from_slice", "new"}
    /\ size \in StreamSizes(ctor)
    /\ checked \in BOOLEAN
    /\ ctor # "from_tuples" => checked
    /\ clues \in {<<>>, <<2, 2, 2>>}
    /\ Constructed(ctor, clues, size, checked).err = ""
    /\ puzzle = Constructed(ctor, clues, size, checked).puzzle
    /\ clue \in StreamEdges(size) \X StreamEdges(size) \X StreamEdges(size)
    /\ cols4 = <<>>
    /\ ec = [num_cols |-> exact_cover_num_cols(size), rows |-> <<>>]
    /\ node_list = <<>>
    /\ num_cols = 0
    /\ row_labels = <<>>
    /\ err = ""
    /\ arena0 = <<>>
    /\ pc = "stream"
    /\ IdleSearch

\* one call of next() on the iterator
StreamNext ==
    /\ pc = "stream"
    /\ Len(ec.rows) < MaxTake
    /\ LET res == next_row(ctor, puzzle, clue)
       IN /\ clue' = res.pos
          /\ ec' = IF res.some THEN [ec EXCEPT !.rows = Append(@, res.row)]
                   ELSE ec
          /\ pc' = IF res.some THEN "stream" ELSE "streamed"
    /\ UNCHANGED <<node_list, num_cols, row_labels, frames, partial_soln,
                   solutions, err, arena0, history, size, cols4, ctorvars>>

NextStream == StreamNext

SpecStream == InitStream /\ [][NextStream]_vars

-----------------------------------------------------------------------------
(* Solving a Sudoku: the puzzle of a constructor handed to DancingLinks::new *)
(* and searched by print_solutions, as tests::test_sudoku of lib.rs does;    *)
(* solutions holds the label lists search reaches in its base case.          *)

\* tests::test_from_tuple and tests::test_sudoku: the 4 x 4 puzzle
TestClues == <<0,2,0, 1,1,2, 1,3,3, 2,0,2, 2,2,3, 3,1,1>>

\* a 4 x 4 clue set without conflict that leaves no placement for any of the
\* eight open cells
DeadClues == <<0,0,3, 0,1,0, 1,2,2, 1,3,1, 2,0,2, 2,2,3, 3,1,1, 3,3,0>>

\* a 4 x 4 clue set without conflict that leaves no placement for the cells
\* (2,1) and (3,0) and placements for the other eight open cells
StuckClues == <<1,0,0, 1,1,2, 2,0,1, 2,3,0, 3,1,3, 3,2,2>>

\* the puzzles that are solved: the ones above, the first four and five clues
\* of the test puzzle, and the two 1 x 1 puzzles
IsSolvedPuzzle(n, bytes) ==
    \/ n = 4 /\ bytes \in {TestClues, DeadClues, StuckClues}
    \/ n = 4 /\ \E k \in 4..5 : bytes = SubSeq(TestClues, 1, 3 * k)
    \/ n = 1 /\ bytes \in {<<>>, <<0, 0, 0>>}

InitSolve ==
    /\ size \in {1, 4}
    /\ ctor \in {"from_tuples", "from_slice", "new"}
    /\ checked \in BOOLEAN
    /\ clues \in {<<>>, <<0, 0, 0>>, TestClues, DeadClues, StuckClues,
                  SubSeq(TestClues, 1, 12), SubSeq(TestClues, 1, 15)}
    /\ IsSolvedPuzzle(size, clues)
    /\ puzzle = Constructed(ctor, clues, size, checked).puzzle
    /\ ec = SourceOf(ctor, puzzle)
    /\ BuiltOf("search")
    /\ IdleEncode

SpecSolve == InitSolve /\ [][Next]_vars

-----------------------------------------------------------------------------
(* Vocabulary of the properties *)

\* the column set of row k (1-based position in the source's row stream)
RowCols(src, k) == Range(src.rows[k].cols)

\* the columns that occur in at least one source row
NonEmptyCols(src) == UNION {RowCols(src, k) : k \in DOMAIN src.rows}

\* the rows with at least one column
NonEmptyRows(src) == {k \in DOMAIN src.rows : src.rows[k].cols # <<>>}

\* the source rows an emitted list of labels names, position by position
RowsNamed(src, sol) ==
    [p \in DOMAIN sol |->
        CHOOSE k \in DOMAIN src.rows : src.rows[k].label = sol[p]]

\* a set S of source rows is an exact cover of the non-empty columns
IsExactCover(src, S) ==
    /\ \A k, m \in S : k # m => RowCols(src, k) \cap RowCols(src, m) = {}
    /\ UNION {RowCols(src, k) : k \in S} = NonEmptyCols(src)

\* the positions of the output at which the set S of rows was emitted
EmittedAt(S) ==
    {i \in DOMAIN solutions : Range(RowsNamed(ec, solutions[i])) = S}

\* every header's size is the number of nodes in its d-cycle
SizesConsistent(nl) ==
    \A h \in 1..num_cols : nl[h].data = Len(ColumnNodes(nl, h))

\* the arena holds at least one data node
HasDataNodes == NLen(node_list) > num_cols + 1

-----------------------------------------------------------------------------
(* C1 *)

\* C1 as stated: after ANY balanced, LIFO-nested sequence of cover_col and
\* uncover_col calls on a constructed matrix, whatever headers they are
\* given, the arena equals the arena before the sequence.
C1_RestoredAfterAnySequence ==
    (pc = "driver" /\ err = "" /\ cstack = <<>>) => node_list = arena0

\* C1 amended: after a balanced, LIFO-nested sequence of cover_col and
\* uncover_col calls in which every cover_col(h) is given a header h that is
\* in the root's l/r cycle at the call, no call has panicked and the arena
\* (l, r, u, d, col, data of every node) equals the arena before the sequence.
C1_RestoredAfterActiveSequence ==
    (pc = "driver" /\ active_only) =>
        /\ err = ""
        /\ lifo
        /\ cstack = <<>> => node_list = arena0

\* a nested sequence of two covers of active headers has been undone on a
\* matrix with data nodes and a detached empty column
C1_Witness ==
    /\ pc = "driver" /\ active_only /\ cstack = <<>> /\ deepest >= 2
    /\ HasDataNodes
    /\ NonEmptyCols(ec) # 0..(num_cols - 1)
    /\ node_list = arena0

-----------------------------------------------------------------------------
(* C2 *)

\* C2: when the top-level search returns, the arena equals the arena just
\* before the search, the partial-solution stack is empty, and every
\* cover_col of search was undone by an uncover_col in LIFO order.
C2_SearchRestores ==
    pc = "done" =>
        /\ node_list = arena0
        /\ partial_soln = <<>>
        /\ cstack = <<>>
        /\ lifo

\* the same for the sources that keep the contract of ExactCover
C2_SearchRestoresOnContract == KeepsContract(ec) => C2_SearchRestores

\* a search three covers deep that emitted two solutions has returned
C2_Witness ==
    /\ pc = "done" /\ deepest >= 3 /\ Len(solutions) >= 2
    /\ node_list = arena0

-----------------------------------------------------------------------------
(* C3 *)

\* C3: every solution emitted names rows whose column sets are pairwise
\* disjoint and whose union is exactly the set of columns that occur in at
\* least one source row.
C3_SolutionsAreExactCovers ==
    \A i \in DOMAIN solutions :
        LET sol == solutions[i]
            rows == RowsNamed(ec, sol)
        IN /\ \A p, q \in DOMAIN sol :
                 p # q => RowCols(ec, rows[p]) \cap RowCols(ec, rows[q]) = {}
           /\ UNION {RowCols(ec, rows[p]) : p \in DOMAIN sol}
                 = NonEmptyCols(ec)

\* the same for the sources that keep the contract of ExactCover
C3_ExactCoversOnContract == KeepsContract(ec) => C3_SolutionsAreExactCovers

\* a solution of two or more rows was emitted for a source with an empty
\* column
C3_Witness ==
    /\ solutions # <<>>
    /\ Len(solutions[1]) >= 2
    /\ NonEmptyCols(ec) # 0..(num_cols - 1)

-----------------------------------------------------------------------------
(* C4 *)

\* the top-level search is over: it has returned or a panic has ended it
SearchEnded == pc = "done" \/ err # ""

\* C4: search is complete and duplicate-free: once it is over, every set of
\* source rows that is pairwise disjoint and whose union is the set of
\* non-empty columns has been emitted as a solution, exactly once.
C4_EveryCoverEmittedOnce ==
    SearchEnded =>
        \A S \in SUBSET (DOMAIN ec.rows) :
            IsExactCover(ec, S) => Cardinality(EmittedAt(S)) = 1

\* the same for the sets of rows with at least one column each (a row with
\* no column has no node and cannot be chosen)
C4_EveryCoverOfNonEmptyRowsEmittedOnce ==
    SearchEnded =>
        \A S \in SUBSET NonEmptyRows(ec) :
            IsExactCover(ec, S) => Cardinality(EmittedAt(S)) = 1

\* and that for the sources that keep the contract of ExactCover and have a
\* column
C4_CompleteOnContract ==
    (KeepsContract(ec) /\ ec.num_cols >= 1) =>
        C4_EveryCoverOfNonEmptyRowsEmittedOnce

\* search has returned on a source with two or more exact covers, one of
\* them of two or more rows
C4_Witness ==
    /\ pc = "done"
    /\ \E S, T \in SUBSET NonEmptyRows(ec) :
          /\ S # T /\ Cardinality(S) >= 2
          /\ IsExactCover(ec, S) /\ IsExactCover(ec, T)

-----------------------------------------------------------------------------
(* C5 *)

\* C5: after construction and after every completed cover_col or uncover_col
\* call of search, each header's data equals the number of data nodes in its
\* d-cycle.
C5_SizesConsistent ==
    (pc \in {"search", "row", "cover_j", "uncover_j", "done"} /\ err = "")
        => SizesConsistent(node_list)

\* the same for the sources that keep the contract of ExactCover
C5_SizesConsistentOnContract == KeepsContract(ec) => C5_SizesConsistent

\* inside search, a cover has taken a node out of a column that still holds
\* another node
C5_Witness ==
    /\ pc = "cover_j" /\ cstack # <<>>
    /\ \E h \in 1..num_cols :
          /\ node_list[h].data < arena0[h].data
          /\ node_list[h].data > 0
    /\ SizesConsistent(node_list)

-----------------------------------------------------------------------------
(* C6 *)

\* C6: on the source of test_dl (6 columns, rows {0,1},{1,2},{2,3},{3,4},
\* {4,5},{0,5}, labels = row indices) search emits exactly two solutions,
\* each of three rows: the row sets {0,2,4} and {1,3,5}.
C6_KnuthToySolutions ==
    (pc = "done" /\ ec = KnuthToy) =>
        /\ Len(solutions) = 2
        /\ \A i \in DOMAIN solutions : Len(solutions[i]) = 3
        /\ {Range(solutions[i]) : i \in DOMAIN solutions}
              = {{0, 2, 4}, {1, 3, 5}}

\* search has returned on the source of test_dl
C6_Witness == pc = "done" /\ ec = KnuthToy /\ Len(solutions) = 2

-----------------------------------------------------------------------------
(* C7 *)

\* C7: a column that occurs in no row is not in the root list, at
\* construction and throughout search; with num_cols = 2 and rows [{0},{0}]
\* search emits exactly [row0] and [row1]; with num_cols = 3 and no rows it
\* emits exactly one solution, the empty list.
C7_EmptyColumnsIgnored ==
    /\ err = "" =>
          \A h \in 1..num_cols :
              (h - 1) \notin NonEmptyCols(ec) => ~InRootList(node_list, h)
    /\ (pc = "done" /\ ec = OverConstrained) => solutions = <<<<0>>, <<1>>>>
    /\ (pc = "done" /\ ec = EmptySource) => solutions = << <<>> >>

\* search has returned on both sources: seen on the three-column source
\* with no rows (the other is C7_WitnessOverConstrained)
C7_Witness == pc = "done" /\ ec = EmptySource /\ solutions = << <<>> >>

C7_WitnessOverConstrained ==
    pc = "done" /\ ec = OverConstrained /\ Len(solutions) = 2

-----------------------------------------------------------------------------
(* C8 *)

\* C8 as stated: construction ends in a fatal error for every source with a
\* row that names the same column more than once.
C8_DuplicateColumnsRejected ==
    (pc = "built" /\ HasDuplicateColumn(ec)) => err # ""

-----------------------------------------------------------------------------
(* C9 *)

\* C9: DancingLinks::new ends in a fatal error if and only if some source
\* row names a column index >= num_cols.
C9_FatalIffOutOfRange ==
    pc = "built" => (err # "" <=> HasColumnOutOfRange(ec))

\* construction has panicked on a source whose first row is in range and
\* whose second row is not
C9_Witness ==
    /\ pc = "built" /\ err = "row exceeded column bounds"
    /\ Len(ec.rows) >= 2
    /\ \A i \in DOMAIN ec.rows[1].cols : ec.rows[1].cols[i] < ec.num_cols
    /\ ec.rows[1].cols # <<>>

\* construction has completed on an in-range source that uses its last column
C9_WitnessBuilt ==
    /\ pc = "built" /\ err = ""
    /\ (ec.num_cols - 1) \in NonEmptyCols(ec)

-----------------------------------------------------------------------------
(* C10 *)

\* C10: for N = k*k the encoder reports 4*N*N columns; a placement
\* (row, col, digit) maps to four columns, the g-th in
\* [g*N*N, (g+1)*N*N), equal to row + col*N, N*N + digit + row*N,
\* 2*N*N + digit + col*N and 3*N*N + digit + box*N with
\* box = (row / k) + (col / k)*k; no other placement maps to the same four.
C10_SudokuColumns ==
    (pc = "encode" /\ cols4 # <<>>) =>
        LET N == size
            k == CHOOSE b \in 1..N : b * b = N
            row == clue[1]
            col == clue[2]
            digit == clue[3]
            box == (row \div k) + (col \div k) * k
        IN /\ exact_cover_num_cols(size) = 4 * N * N
           /\ Len(cols4) = 4
           /\ \A g \in 0..3 :
                 /\ cols4[g + 1] >= g * N * N
                 /\ cols4[g + 1] < (g + 1) * N * N
           /\ cols4[1] = row + col * N
           /\ cols4[2] = N * N + digit + row * N
           /\ cols4[3] = 2 * N * N + digit + col * N
           /\ cols4[4] = 3 * N * N + digit + box * N
           /\ \A q \in Placements(size) : q # clue => ec_cols(q, size) # cols4

\* a placement of the 9 x 9 puzzle off the diagonal of boxes was encoded
C10_Witness ==
    /\ pc = "encode" /\ size = 9
    /\ clue = <<4, 7, 2>>
    /\ cols4 = <<67, 119, 227, 308>>

-----------------------------------------------------------------------------
(* C15 *)

\* every l, r, u and d of the arena is an index of the arena
LinksInside(nl) ==
    \A i \in DOMAIN nl :
        /\ nl[i].l \in DOMAIN nl /\ nl[i].r \in DOMAIN nl
        /\ nl[i].u \in DOMAIN nl /\ nl[i].d \in DOMAIN nl

\* the slots of the data nodes
DataNodes(nl) == {i \in DOMAIN nl : i > num_cols}

\* no call has panicked (choose_col found a column, no size was decremented
\* below zero), choose_col is reached only with a non-empty active list, and
\* every index search follows (l, r, u, d of any node, col and data of a data
\* node, the slots on the partial-solution stack) is inside the arena or the
\* row-label table
SearchIsSafe ==
    /\ err = ""
    /\ LinksInside(node_list)
    /\ \A i \in DataNodes(node_list) :
          /\ node_list[i].col \in 1..num_cols
          /\ node_list[i].data \in 0..(Len(row_labels) - 1)
    /\ \A h \in 1..num_cols : node_list[h].data >= 0
    /\ \A k \in DOMAIN partial_soln :
          partial_soln[k] \in DataNodes(node_list)
    /\ (pc = "search" /\ node_list[0].r # 0) =>
          ActiveHeaders(node_list) # <<>>
    /\ \A k \in DOMAIN frames :
          frames[k].col \in 1..num_cols /\ frames[k].r \in DOMAIN node_list

\* C15: search never ends in a fatal error on a matrix DancingLinks::new has
\* built from a source that keeps the contract: choose_col is only called
\* with a non-empty active list, no header size is decremented below zero,
\* and every index followed is inside the arena or the row-label table.
C15_SearchNeverFails == SearchIsSafe

\* the same for the sources that keep the contract of ExactCover and whose
\* matrix has all its links inside the arena when new returns, which are the
\* ones with at least one column
C15_SearchSafeOnClosedArena ==
    (KeepsContract(ec) /\ LinksInside(arena0)) => SearchIsSafe

-----------------------------------------------------------------------------
(* C16 *)

\* the least size (a usize) among the headers of the root's cycle
MinSize(nl) ==
    LET hs == ActiveHeaders(nl)
    IN CHOOSE m \in {nl[hs[k]].data : k \in DOMAIN hs} :
          \A k \in DOMAIN hs : ~ult(nl[hs[k]].data, m)

\* the first header of the walk root.r, root.r.r, ... whose size is least
FirstMinimal(nl) ==
    LET hs == ActiveHeaders(nl)
        k0 == CHOOSE k \in DOMAIN hs :
                 /\ nl[hs[k]].data = MinSize(nl)
                 /\ \A m \in 1..(k - 1) : nl[hs[m]].data # MinSize(nl)
    IN hs[k0]

\* C16: whenever search calls choose_col (the active list is then not
\* empty), the column it goes on with is the first header of the walk
\* root.r, root.r.r, ... whose size is minimal in the root's cycle; when that
\* size is 0 the loop over the column's rows starts at its end (r = col), so
\* that no row is tried and the next step of search is its return.
C16_ChooseColFirstMinimal ==
    [][(pc = "search" /\ pc' = "row") =>
          LET fr == frames'[Len(frames')]
          IN /\ ActiveHeaders(node_list) # <<>>
             /\ fr.col = FirstMinimal(node_list)
             /\ choose_col(node_list) = [idx |-> fr.col, err |-> ""]
             /\ node_list[fr.col].data = 0 => fr.r = fr.col]_vars

\* the same for the sources that keep the contract of ExactCover
C16_FirstMinimalOnContract ==
    [][(KeepsContract(ec) /\ pc = "search" /\ pc' = "row") =>
          LET fr == frames'[Len(frames')]
          IN /\ ActiveHeaders(node_list) # <<>>
             /\ fr.col = FirstMinimal(node_list)
             /\ choose_col(node_list) = [idx |-> fr.col, err |-> ""]
             /\ node_list[fr.col].data = 0 => fr.r = fr.col]_vars

\* search went on with a column of size 0 that was not the first of the
\* active list, below another activation, and is about to return
C16_Witness ==
    /\ pc = "row" /\ Len(frames) >= 2
    /\ Top.r = Top.col
    /\ node_list[Top.col].data = 0
    /\ partial_soln # <<>>

\* search went on with a column that was not the first of the active list
C16_WitnessTie ==
    /\ pc = "row" /\ Len(frames) = 1 /\ partial_soln = <<>>
    /\ Top.col # arena0[0].r
    /\ Top.r = arena0[Top.col].d

-----------------------------------------------------------------------------
(* C17 *)

\* C17: in every state the column header at slot h in [1, num_cols] has
\* col = h (a header points to itself), after construction and after every
\* cover_col and uncover_col.
C17_HeadersPointToThemselves ==
    \A h \in 1..num_cols :
        h \in DOMAIN node_list => node_list[h].col = h

\* what setup_headers writes and cover_col and uncover_col keep: the header
\* at slot h has col = h - 1, the number of its column
C17_HeadersHoldColumnNumber ==
    \A h \in 1..num_cols :
        h \in DOMAIN node_list => node_list[h].col = h - 1

-----------------------------------------------------------------------------
(* C18 *)

\* the walk from the root along r comes back to the root
RootCycleCloses(nl) ==
    LET hs == ActiveHeaders(nl)
    IN IF hs = <<>> THEN nl[0].r = 0 ELSE nl[hs[Len(hs)]].r = 0

Reverse(s) == [k \in DOMAIN s |-> s[Len(s) + 1 - k]]

\* the headers that had a row at construction and are not covered now
UncoveredNonEmpty ==
    {h \in 1..num_cols : (h - 1) \in NonEmptyCols(ec) /\ h \notin Range(cstack)}

\* the root's cycle holds exactly the uncovered non-empty headers, once each,
\* and l runs through them in the reverse order
RootCycleIsActive(nl) ==
    LET hs == ActiveHeaders(nl)
    IN /\ RootCycleCloses(nl)
       /\ Distinct(hs)
       /\ Range(hs) = UncoveredNonEmpty
       /\ root_walk_left(nl, nl[0].l, NLen(nl)) = Reverse(hs)

\* C18: after construction and between the cover_col and uncover_col calls of
\* search, following r from the root returns to the root and visits exactly
\* the headers that had a row at construction and are not covered now, each
\* once; following l visits the same headers in reverse order.
C18_RootCycle == RootCycleIsActive(node_list)

\* the same with at least one column
C18_RootCycleWithColumns == num_cols >= 1 => RootCycleIsActive(node_list)

-----------------------------------------------------------------------------
(* C19 *)

\* the data nodes that are in the d-cycle of their column
Linked(nl) == UNION {Range(ColumnNodes(nl, h)) : h \in 1..num_cols}

\* the header a step of cover_col or uncover_col was called with
CalledHeader ==
    IF Len(cstack') > Len(cstack) THEN cstack'[Len(cstack')]
    ELSE cstack[Len(cstack)]

\* the data nodes the step unlinked or relinked
Moved == (Linked(node_list) \ Linked(node_list'))
            \cup (Linked(node_list') \ Linked(node_list))

\* what is common to C19 as stated and as amended
FrameOfCall ==
    /\ DOMAIN node_list' = DOMAIN node_list
    /\ row_labels' = row_labels
    /\ \A i \in DOMAIN node_list : node_list'[i].col = node_list[i].col
    /\ \A i \in DataNodes(node_list) :
          /\ node_list'[i].l = node_list[i].l
          /\ node_list'[i].r = node_list[i].r
          /\ node_list'[i].data = node_list[i].data
    /\ node_list'[CalledHeader].l = node_list[CalledHeader].l
    /\ node_list'[CalledHeader].r = node_list[CalledHeader].r

\* C19 as stated: a call of cover_col or uncover_col leaves unchanged the l
\* and r of every data node, the u and d of every node it unlinks or relinks,
\* the l and r of the header it is called with, every col, the row id of
\* every data node, the length of the arena and the row-label table.
C19_FrameOfCoverUncover ==
    [][(node_list' # node_list) =>
          /\ FrameOfCall
          /\ \A i \in Moved :
                /\ node_list'[i].u = node_list[i].u
                /\ node_list'[i].d = node_list[i].d]_vars

\* C19 amended: the same, but the u (d) of a node the call unlinks or relinks
\* is left unchanged only where the node it names before and the node it
\* names after the call are not unlinked or relinked by the same call; the u
\* and d of every data node that is unlinked before and after the call are
\* unchanged.
C19_FrameOfCoverUncoverAmended ==
    [][(node_list' # node_list) =>
          /\ FrameOfCall
          /\ \A i \in Moved :
                /\ node_list'[i].u # node_list[i].u =>
                      (node_list[i].u \in Moved \/ node_list'[i].u \in Moved)
                /\ node_list'[i].d # node_list[i].d =>
                      (node_list[i].d \in Moved \/ node_list'[i].d \in Moved)
          /\ \A i \in DataNodes(node_list) :
                i \notin Linked(node_list) \cup Linked(node_list') =>
                      /\ node_list'[i].u = node_list[i].u
                      /\ node_list'[i].d = node_list[i].d]_vars

\* on the sources that keep the contract of ExactCover a call also leaves
\* unchanged the u and d of every data node of the column it is called with
C19_ColumnKeptOnContract ==
    [][(KeepsContract(ec) /\ node_list' # node_list) =>
          \A i \in DataNodes(node_list) :
                node_list[i].col = CalledHeader =>
                      /\ node_list'[i].u = node_list[i].u
                      /\ node_list'[i].d = node_list[i].d]_vars

\* the cover of a column is in force whose two rows are neighbours in another
\* column too: the second of them was unlinked with a changed u
C19_Witness ==
    /\ cstack # <<>>
    /\ \E i, k \in DataNodes(node_list) \ Linked(node_list) :
          /\ arena0[k].u = i
          /\ node_list[k].u # i

-----------------------------------------------------------------------------
(* C20 *)

\* C20: for num_cols = 0 the l and r of the root both name the root, no call
\* panics, and search takes its base case: once it has returned it has
\* emitted exactly one solution, the empty list.
C20_NoColumnsOneEmptySolution ==
    ec.num_cols = 0 =>
        /\ node_list[0].l = 0
        /\ node_list[0].r = 0
        /\ err = ""
        /\ pc = "done" => solutions = << <<>> >>

-----------------------------------------------------------------------------
(* C11 *)

\* the clues of the input: its whole triples
WholeClues ==
    LET whole(c) == Len(c) = 3
    IN SelectSeq(chunks3(clues), whole)

IsPerfectSquare(n) == \E b \in 0..n : b * b = n

OutOfRange(c, n) == \E k \in DOMAIN c : c[k] >= n

\* the three kinds of invalid input: N is no perfect square, a clue (or the
\* part of a clue the slice ends with) has a field >= N, two clues map to a
\* common constraint column
InvalidInput ==
    \/ ~IsPerfectSquare(size)
    \/ \E k \in DOMAIN chunks3(clues) : OutOfRange(chunks3(clues)[k], size)
    \/ \E i, j \in DOMAIN WholeClues :
          /\ i < j
          /\ Range(ec_cols(WholeClues[i], size))
                \cap Range(ec_cols(WholeClues[j], size)) # {}

\* C11: a Sudoku constructor (from_tuples, from_slice, SudokuPuzzle::new)
\* ends in a fatal error exactly when N is not a perfect square, or a clue
\* has row, col or digit >= N, or two clues map to a common constraint
\* column; for every other input it returns a puzzle of size N.
C11_FatalIffInvalid ==
    pc = "puzzle" =>
        /\ err # "" <=> InvalidInput
        /\ err = "" => puzzle.size = size

-----------------------------------------------------------------------------
(* C12 *)

\* the columns covered by the clues
ClueCols ==
    UNION {Range(ec_cols(WholeClues[k], size)) : k \in DOMAIN WholeClues}

\* (row, col, digit) order
LexLess(a, b) ==
    \/ a[1] < b[1]
    \/ a[1] = b[1] /\ a[2] < b[2]
    \/ a[1] = b[1] /\ a[2] = b[2] /\ a[3] < b[3]

\* what C12 says of the rows taken from a window of the stream: each is a
\* placement of [0,N)^3 labelled with its own triple (the ranges stand right
\* after the triple of the row taken last), its columns are those of its
\* label and none of them is covered by a clue, and the rows come in
\* (row, col, digit) lexicographic order
StreamInOrder ==
    pc \in {"stream", "streamed"} =>
        LET rows == ec.rows
        IN /\ \A i \in DOMAIN rows :
                 /\ rows[i].label \in Placements(size)
                 /\ rows[i].cols = ec_cols(rows[i].label, size)
                 /\ Range(rows[i].cols) \cap ClueCols = {}
                 /\ i > 1 => LexLess(rows[i - 1].label, rows[i].label)
           /\ (pc = "stream" /\ rows # <<>>) =>
                 clue = advance(rows[Len(rows)].label, size)

\* C12: the row stream of the encoder holds, in (row, col, digit)
\* lexicographic order, exactly those placements of [0,N)^3 none of whose
\* four columns is covered by a clue, each labelled with its own triple; here
\* for the rows of any window of the stream, at any size N = k^2 the
\* constructor accepts.
C12_StreamLabelledInOrder == StreamInOrder

\* the same for the sizes whose placements fit the u8 fields of a label
C12_StreamInOrderUpTo256 == size <= 256 => StreamInOrder

\* C12 on the whole stream, for the sizes small enough to hold it: the row
\* stream of the encoder holds, in (row, col, digit)
\* lexicographic order, exactly the placements of [0,N)^3 none of whose four
\* columns is covered by a clue, each labelled with its own triple (its
\* columns are those of its label); no emitted row shares a column with a
\* clue and no clue placement is emitted; the column count is 4 * N^2.
C12_RowStream ==
    pc = "rows" =>
        LET rows == ec.rows
            labels == {rows[i].label : i \in DOMAIN rows}
        IN /\ ec.num_cols = 4 * size * size
           /\ \A i \in DOMAIN rows :
                 /\ rows[i].label \in Placements(size)
                 /\ rows[i].cols = ec_cols(rows[i].label, size)
                 /\ Range(rows[i].cols) \cap ClueCols = {}
                 /\ i > 1 => LexLess(rows[i - 1].label, rows[i].label)
           /\ labels = {c \in Placements(size) :
                           Range(ec_cols(c, size)) \cap ClueCols = {}}
           /\ \A k \in DOMAIN WholeClues : WholeClues[k] \notin labels

\* the rows of a 9 x 9 puzzle with two clues in one box were emitted: fewer
\* than 9^3, and some but not all placements of the clues' row are among them
C12_Witness ==
    /\ pc = "rows" /\ size = 9 /\ ctor = "from_slice"
    /\ Len(WholeClues) = 2
    /\ WholeClues[1] = <<0, 0, 0>> /\ WholeClues[2] = <<1, 1, 1>>
    /\ Len(ec.rows) < 9 * 9 * 9
    /\ \E i \in DOMAIN ec.rows : ec.rows[i].label = <<0, 1, 8>>

-----------------------------------------------------------------------------
(* C13 *)

\* the cells of the grid that clues and a solution fill
Filled(sol) == Range(WholeClues) \cup Range(sol)

\* every row, column and box holds every digit once, and every cell one digit
IsCompleteGrid(cells, n) ==
    LET N == 0..(n - 1)
    IN /\ \A r, c \in N :
             Cardinality({p \in cells : p[1] = r /\ p[2] = c}) = 1
       /\ \A r, d \in N :
             Cardinality({p \in cells : p[1] = r /\ p[3] = d}) = 1
       /\ \A c, d \in N :
             Cardinality({p \in cells : p[2] = c /\ p[3] = d}) = 1
       /\ \A b, d \in N :
             Cardinality({p \in cells : box_idx(p, n) = b /\ p[3] = d}) = 1

\* C13: every solution the search emits for an accepted clue set of an N x N
\* puzzle has exactly N^2 - (number of clues) labels, and clues and labels
\* together fill the grid so that every row, column and box holds each digit
\* of [0, N) exactly once.
C13_SolutionsCompleteTheGrid ==
    \A i \in DOMAIN solutions :
        /\ Len(solutions[i]) = size * size - Len(WholeClues)
        /\ IsCompleteGrid(Filled(solutions[i]), size)

-----------------------------------------------------------------------------
(* C14 *)

\* C14: for the 4 x 4 Sudoku with the clues (0,2,0), (1,1,2), (1,3,3),
\* (2,0,2), (2,2,3), (3,1,1), building the matrix and searching yields exactly
\* one solution, and it has exactly 10 labels.
C14_TestPuzzleOneSolution ==
    (pc = "done" /\ size = 4 /\ clues = TestClues) =>
        /\ err = ""
        /\ Len(solutions) = 1
        /\ Len(solutions[1]) = 10

\* the search of the test puzzle built by from_tuples has returned its
\* solution, which completes the grid
C14_Witness ==
    /\ pc = "done" /\ size = 4 /\ clues = TestClues /\ ctor = "from_tuples"
    /\ Len(solutions) = 1
    /\ Range(solutions[1]) = {<<0,0,1>>, <<0,1,3>>, <<0,3,2>>, <<1,0,0>>,
                          <<1,2,1>>, <<2,1,0>>, <<2,3,1>>, <<3,0,3>>,
                          <<3,2,2>>, <<3,3,0>>}
    /\ IsCompleteGrid(Filled(solutions[1]), 4)

-----------------------------------------------------------------------------
(* C21 *)

\* from_tuples has returned or panicked as from_slice does on the same
\* triples packed in groups of three: both panic, or both return puzzles of
\* the same column count, the same set of clue-covered columns and the same
\* row stream, with a covered-column set of capacity 4 * N^2
AgreesWithFromSlice ==
    LET other == from_slice(clues, size)
    IN /\ err # "" <=> other.err # ""
       /\ err = "" =>
             /\ exact_cover_num_cols(puzzle.size)
                   = exact_cover_num_cols(other.puzzle.size)
             /\ puzzle.covered_cols.ones = other.puzzle.covered_cols.ones
             /\ exact_cover_rows("from_tuples", puzzle)
                   = exact_cover_rows("from_slice", other.puzzle)
             /\ puzzle.covered_cols.len = 4 * size * size
             /\ other.puzzle.covered_cols.len = 4 * size * size

\* C21: for every size N that fits in 8 bits (N = 9 in particular) and every
\* clue sequence, from_tuples on the triples and from_slice on the same
\* triples packed in groups of three either both fail or both return puzzles
\* with the same column count, the same clue-covered columns and the same row
\* stream, and the capacity 4 * N^2 is computed without 8-bit overflow in
\* both, whether the build checks overflow or not.
C21_ConstructorsEquivalent ==
    (pc = "puzzle" /\ ctor = "from_tuples") => AgreesWithFromSlice

\* the same for the sizes whose 4 * N^2 fits in 8 bits
C21_EquivalentBelowEight ==
    (pc = "puzzle" /\ ctor = "from_tuples" /\ size < 8) => AgreesWithFromSlice

=============================================================================
